---- MODULE Spec2Model ----
(***************************************************************************)
(* Model of open_seq2seq/optimizers/novograd.py: the optimizers NovoGrad2, *)
(* NovoGradW, NovoGrad and SethOptimizer.  One action per constructor, per *)
(* apply_gradients method and for a run of a training op it built.         *)
(*                                                                         *)
(* Tensors are sequences of numbers.  Numbers are exact: sums of rational  *)
(* multiples of square roots, extended with +inf, -inf and NaN, the values *)
(* float arithmetic gives for a division by zero or the square root of a   *)
(* negative number.  The rounding of float32 is not modelled.              *)
(*                                                                         *)
(* TensorFlow executes the module in one of two ways, fixed per program    *)
(* (mode).  Eagerly, every tensor operation of apply_gradients is carried  *)
(* out during the call.  In graph construction, TensorFlow 1's default,    *)
(* the call only builds tensors and a training op: self._grads_ema[i] is   *)
(* rebound to the tensor tf.cond returns, the variable tf.get_variable     *)
(* created is never assigned, and the arithmetic happens each time the op  *)
(* is run, on the gradients of that run.                                   *)
(***************************************************************************)
EXTENDS Integers, Sequences, FiniteSets, TLC

VARIABLES mode, opt, ops, var, momentum, calls, runs, last, hist, computed

vars == <<mode, opt, ops, var, momentum, calls, runs, last, hist, computed>>

\* ------------------------------------------------------------- bounds
MaxSteps == 2
MaxN == 2

\* ------------------------------------------------------------- numbers
(***************************************************************************)
(* A number is a record [sp, d, c].  sp = 0: the finite value that is the  *)
(* sum, over the records [n, s] of the set c, of n * sqrt(s), divided by   *)
(* d; d > 0, every n # 0, every s >= 1 square-free and in one term only,   *)
(* and d and the n have no common divisor.  The rational n/d has the one   *)
(* term n * sqrt(1), zero has none.  sp = 1 is +inf, sp = -1 is -inf and   *)
(* sp = 2 is NaN.  Sums, products, quotients and the square roots of       *)
(* rationals are exact.                                                    *)
(***************************************************************************)
Abs(x) == IF x < 0 THEN -x ELSE x
Sign(x) == IF x > 0 THEN 1 ELSE IF x < 0 THEN -1 ELSE 0

RECURSIVE Gcd(_, _)
Gcd(a, b) == IF b = 0 THEN a ELSE Gcd(b, a % b)

RECURSIVE GcdSet(_, _)
GcdSet(c, g) ==
  IF c = {} THEN g
  ELSE LET t == CHOOSE x \in c : TRUE IN GcdSet(c \ {t}, Gcd(Abs(t.n), g))

\* the finite number with terms c over the denominator d > 0, in lowest terms
Norm(d, c) ==
  LET nz == {t \in c : t.n # 0}
      g == GcdSet(nz, d)
  IN [sp |-> 0, d |-> d \div g, c |-> {[n |-> t.n \div g, s |-> t.s] : t \in nz}]

NaN == [sp |-> 2, d |-> 1, c |-> {}]
PosInf == [sp |-> 1, d |-> 1, c |-> {}]
NegInf == [sp |-> -1, d |-> 1, c |-> {}]
Inf(sign) == IF sign > 0 THEN PosInf ELSE IF sign < 0 THEN NegInf ELSE NaN

\* the number n/d; d = 0 gives +inf (n > 0), -inf (n < 0), NaN (n = 0)
R(n, d) == IF d = 0 THEN Inf(n) ELSE Norm(Abs(d), {[n |-> Sign(d) * n, s |-> 1]})

Zero == R(0, 1)
One == R(1, 1)

IsNaN(a) == a.sp = 2
IsInf(a) == a.sp = 1 \/ a.sp = -1
IsFinite(a) == a.sp = 0
IsRational(a) == a.sp = 0 /\ \A t \in a.c : t.s = 1

\* the numerator of sqrt(s) in the finite number a
Coef(a, s) ==
  IF \E t \in a.c : t.s = s THEN (CHOOSE t \in a.c : t.s = s).n ELSE 0

FAdd(a, b) ==
  LET g == Gcd(a.d, b.d)
      ma == b.d \div g
      mb == a.d \div g
  IN Norm(a.d * ma, {[n |-> Coef(a, s) * ma + Coef(b, s) * mb, s |-> s] :
                       s \in {t.s : t \in a.c \cup b.c}})

FNeg(a) == [sp |-> 0, d |-> a.d, c |-> {[n |-> -t.n, s |-> t.s] : t \in a.c}]

RECURSIVE SumN(_)
SumN(c) == IF c = {} THEN 0 ELSE LET t == CHOOSE x \in c : TRUE IN t.n + SumN(c \ {t})

\* sqrt(s) * sqrt(t) = g * sqrt((s/g) * (t/g)) for square-free s, t with g = gcd(s, t);
\* what the numerators of one factor share with the denominator of the other (ga, gb)
\* is cancelled before the products are formed
FMul(a, b) ==
  LET ga == GcdSet(a.c, b.d)
      gb == GcdSet(b.c, a.d)
      prod == {LET g == Gcd(p[1].s, p[2].s)
               IN [n |-> (p[1].n \div ga) * (p[2].n \div gb) * g,
                   s |-> (p[1].s \div g) * (p[2].s \div g), of |-> p] : p \in a.c \X b.c}
  IN Norm((a.d \div gb) * (b.d \div ga),
          {[n |-> SumN({t \in prod : t.s = s}), s |-> s] : s \in {t.s : t \in prod}})

\* the sign of a finite number: exact for sums of one or two terms
FSign(a) ==
  CASE a.c = {} -> 0
    [] Cardinality(a.c) = 1 -> Sign((CHOOSE t \in a.c : TRUE).n)
    [] Cardinality(a.c) = 2 ->
         LET t == CHOOSE x \in a.c : TRUE
             u == CHOOSE x \in a.c : x # t
         IN IF Sign(t.n) = Sign(u.n) \/ t.n * t.n * t.s > u.n * u.n * u.s
            THEN Sign(t.n) ELSE Sign(u.n)

\* the smallest divisor >= k of n > 1, n having none in 2..k-1: it is a prime
RECURSIVE DivisorFrom(_, _)
DivisorFrom(n, k) ==
  IF k * k > n THEN n ELSE IF n % k = 0 THEN k ELSE DivisorFrom(n, k + 1)

\* 1/a for a finite a # 0.  A rational is inverted directly.  Otherwise, with p the
\* smallest prime under a square root of a, a = A + B*sqrt(p) with no p under the roots
\* of A and B, conj = A - B*sqrt(p), and 1/a = conj / (conj * a), where conj * a =
\* A*A - p*B*B has no p under its roots
RECURSIVE FInv(_)
FInv(a) ==
  IF IsRational(a) THEN R(a.d, Coef(a, 1))
  ELSE LET primes == {DivisorFrom(t.s, 2) : t \in {u \in a.c : u.s > 1}}
           p == CHOOSE x \in primes : \A y \in primes : x <= y
           conj == [sp |-> 0, d |-> a.d,
                    c |-> {[n |-> IF t.s % p = 0 THEN -t.n ELSE t.n, s |-> t.s] : t \in a.c}]
       IN FMul(conj, FInv(FMul(conj, a)))

RSign(a) == IF IsFinite(a) THEN FSign(a) ELSE a.sp

RNeg(a) == IF IsFinite(a) THEN FNeg(a) ELSE IF IsNaN(a) THEN NaN ELSE Inf(-a.sp)

RAdd(a, b) ==
  IF IsNaN(a) \/ IsNaN(b) THEN NaN
  ELSE IF IsInf(a) THEN (IF IsInf(b) /\ b.sp # a.sp THEN NaN ELSE a)
  ELSE IF IsInf(b) THEN b
  ELSE FAdd(a, b)

RSub(a, b) == RAdd(a, RNeg(b))

\* inf * 0 is NaN
RMul(a, b) ==
  IF IsNaN(a) \/ IsNaN(b) THEN NaN
  ELSE IF IsInf(a) \/ IsInf(b) THEN Inf(RSign(a) * RSign(b))
  ELSE FMul(a, b)

\* a / b; x/0 is +inf or -inf by the sign of x, 0/0 is NaN
RDiv(a, b) ==
  IF IsNaN(a) \/ IsNaN(b) THEN NaN
  ELSE IF IsInf(b) THEN (IF IsInf(a) THEN NaN ELSE Zero)
  ELSE IF b.c = {} THEN Inf(RSign(a))
  ELSE RMul(a, FInv(b))

\* comparisons are false on NaN
RGt(a, b) == RSign(RSub(a, b)) = 1
REq(a, b) == ~IsNaN(a) /\ a = b
RGe(a, b) == REq(a, b) \/ RGt(a, b)

RAbs(a) == IF RSign(a) < 0 THEN RNeg(a) ELSE a

\* the largest k with k*k dividing m >= 1, from k on
RECURSIVE SquarePart(_, _, _)
SquarePart(m, k, best) ==
  IF k * k > m THEN best
  ELSE SquarePart(m, k + 1, IF m % (k * k) = 0 THEN k ELSE best)

\* the square root of a rational, exactly: sqrt(n/d) = k * sqrt(s) / d, n*d = k*k*s
RSqrt(a) ==
  CASE IsNaN(a) -> NaN
    [] IsInf(a) -> IF a.sp > 0 THEN PosInf ELSE NaN
    [] IsRational(a) ->
         LET m == Coef(a, 1) * a.d
             k == SquarePart(m, 1, 1)
         IN IF m < 0 THEN NaN
            ELSE IF m = 0 THEN Zero
            ELSE Norm(a.d, {[n |-> k, s |-> m \div (k * k)]})

\* ------------------------------------------------------------- tensors
ZeroT(t) == [j \in 1..Len(t) |-> Zero]
scalar_mul(c, t) == [j \in 1..Len(t) |-> RMul(c, t[j])]
TAdd(s, t) == [j \in 1..Len(t) |-> RAdd(s[j], t[j])]
TSub(s, t) == [j \in 1..Len(t) |-> RSub(s[j], t[j])]
square(t) == [j \in 1..Len(t) |-> RMul(t[j], t[j])]
TAbs(t) == [j \in 1..Len(t) |-> RAbs(t[j])]

RECURSIVE reduce_sum(_)
reduce_sum(t) == IF t = <<>> THEN Zero ELSE RAdd(Head(t), reduce_sum(Tail(t)))

\* tf.norm(tensor, ord): ord = 1 the sum of the magnitudes, ord = 2 the Euclidean norm
\* (the default of NovoGrad and the order of SethOptimizer).  Another order needs the
\* roots of that order, which these numbers do not have: norm is undefined there.
norm(t, ord) ==
  CASE ord = 1 -> reduce_sum(TAbs(t))
    [] ord = 2 -> RSqrt(reduce_sum(square(t)))

\* a sparse gradient (tf.IndexedSlices) of a vector: values[j] belongs to row indices[j]
IndexedSlices(values, indices, len) == [values |-> values, indices |-> indices, len |-> len]

\* the dense tensor of a sparse gradient: the values of one row are added up
RECURSIVE RowSum(_, _, _)
RowSum(g, row, j) ==
  IF j > Len(g.indices) THEN Zero
  ELSE RAdd(IF g.indices[j] = row THEN g.values[j] ELSE Zero, RowSum(g, row, j + 1))
convert_to_tensor(g) == [row \in 1..g.len |-> RowSum(g, row, 1)]

\* ------------------------------------------------------------- inputs
IntT(t) == [j \in 1..Len(t) |-> R(t[j], 1)]

\* the gradients a step supplies: group j of pattern p gets GradSeq[((p + j) % 3) + 1]
GradSeq == << IntT(<<3, -4>>), IntT(<<0, 0>>), IntT(<<1, -1>>) >>
GradPatterns == 0..2
Grads(p, k) == [j \in 1..k |-> GradSeq[((p + j) % 3) + 1]]

\* the numbers of pairs a call is given: the first k variables
PairCounts == 1..MaxN

\* the gradients SethOptimizer is given: those of the variables with an even number are
\* sparse (as the gradient of an embedding is), the others dense
SparseSeq ==
  << IndexedSlices(IntT(<<3>>), <<1>>, 2), IndexedSlices(IntT(<<1, 1>>), <<2, 1>>, 2),
     IndexedSlices(IntT(<<2, -1>>), <<2, 2>>, 2) >>
SparseVar(j) == j % 2 = 0
SethGrads(p, k) ==
  [j \in 1..k |-> IF SparseVar(j) THEN SparseSeq[((p + j) % 3) + 1]
                  ELSE GradSeq[((p + j) % 3) + 1]]

\* the trainable parameters before training
InitVar == [i \in 1..MaxN |-> IntT(<<i, -2>>)]

Half == R(1, 2)
Quarter == R(1, 4)

\* constructor arguments: configurations the documentation allows, and configurations
\* with one argument outside its range (beta2 = 2, epsilon = 0, weight_decay = -1)
NovoGrad2Args ==
  {[learning_rate |-> Half, beta1 |-> Half, beta2 |-> Quarter, epsilon |-> Quarter,
    weight_decay |-> Zero],
   [learning_rate |-> Half, beta1 |-> Half, beta2 |-> Quarter, epsilon |-> Quarter,
    weight_decay |-> Half],
   [learning_rate |-> Half, beta1 |-> Half, beta2 |-> R(2, 1), epsilon |-> Quarter,
    weight_decay |-> Zero],
   [learning_rate |-> Half, beta1 |-> Half, beta2 |-> Quarter, epsilon |-> Zero,
    weight_decay |-> Half],
   [learning_rate |-> Half, beta1 |-> Half, beta2 |-> Quarter, epsilon |-> Quarter,
    weight_decay |-> R(-1, 1)]}

NovoGradWArgs ==
  {[learning_rate |-> Half, beta1 |-> Half, beta2 |-> Quarter, epsilon |-> Quarter,
    weight_decay |-> Half],
   [learning_rate |-> Half, beta1 |-> Half, beta2 |-> Quarter, epsilon |-> Quarter,
    weight_decay |-> Zero]}

NovoGradArgs ==
  {[learning_rate |-> Half, beta1 |-> Half, beta2 |-> Quarter, epsilon |-> Quarter,
    ord |-> 1],
   [learning_rate |-> Half, beta1 |-> Half, beta2 |-> Quarter, epsilon |-> Quarter,
    ord |-> 2],
   [learning_rate |-> Half, beta1 |-> Half, beta2 |-> R(2, 1), epsilon |-> Quarter,
    ord |-> 2],
   [learning_rate |-> Half, beta1 |-> Half, beta2 |-> Quarter, epsilon |-> Zero,
    ord |-> 1]}

SethOptimizerArgs ==
  {[learning_rate |-> Half, momentum |-> Half, epsilon |-> Quarter, use_nesterov |-> FALSE],
   [learning_rate |-> Half, momentum |-> Half, epsilon |-> Quarter, use_nesterov |-> TRUE]}

None == <<>>
Some(x) == <<x>>
\* ------------------------------------------------------------- constructors
\* variant: the momentum base is given beta2 as its momentum
NovoGrad2_init_momentum_beta2(learning_rate, beta1, beta2, epsilon, weight_decay) ==
  [cls |-> "NovoGrad2", learning_rate |-> learning_rate, momentum |-> beta2,
   use_nesterov |-> FALSE, beta1 |-> beta1, beta2 |-> beta2, epsilon |-> epsilon,
   wd |-> weight_decay, grads_ema |-> None]

\* NovoGrad2.__init__: the momentum base gets momentum = beta1 and use_nesterov = False;
\* no argument is validated
NovoGrad2_init(learning_rate, beta1, beta2, epsilon, weight_decay) ==
  [cls |-> "NovoGrad2", learning_rate |-> learning_rate, momentum |-> beta1,
   use_nesterov |-> FALSE, beta1 |-> beta1, beta2 |-> beta2, epsilon |-> epsilon,
   wd |-> weight_decay, grads_ema |-> None]

\* variant: weight_decay reaches NovoGrad2.__init__ as well as the extension
NovoGradW_init_coupled(weight_decay, learning_rate, beta1, beta2, epsilon) ==
  ("weight_decay" :> weight_decay) @@
  [cls |-> "NovoGradW", learning_rate |-> learning_rate, momentum |-> beta1,
   use_nesterov |-> FALSE, beta1 |-> beta1, beta2 |-> beta2, epsilon |-> epsilon,
   wd |-> weight_decay, grads_ema |-> None]

\* NovoGradW.__init__: the decoupled extension, first in the method resolution order,
\* keeps weight_decay for itself and passes the remaining keywords on, so
\* NovoGrad2.__init__ runs with its default weight_decay = 0.0
NovoGradW_init(weight_decay, learning_rate, beta1, beta2, epsilon) ==
  ("weight_decay" :> weight_decay) @@
  [NovoGrad2_init(learning_rate, beta1, beta2, epsilon, Zero) EXCEPT !.cls = "NovoGradW"]

\* variant: the momentum base is built with Nesterov momentum on
NovoGrad_init_nesterov(learning_rate, beta1, beta2, epsilon, ord) ==
  [cls |-> "NovoGrad", learning_rate |-> learning_rate, momentum |-> beta1,
   use_nesterov |-> TRUE, beta1 |-> beta1, beta2 |-> beta2, epsilon |-> epsilon,
   ord |-> ord, grads_ema |-> None]

\* NovoGrad.__init__
NovoGrad_init(learning_rate, beta1, beta2, epsilon, ord) ==
  [cls |-> "NovoGrad", learning_rate |-> learning_rate, momentum |-> beta1,
   use_nesterov |-> FALSE, beta1 |-> beta1, beta2 |-> beta2, epsilon |-> epsilon,
   ord |-> ord, grads_ema |-> None]

\* SethOptimizer.__init__: use_nesterov is a constructor argument, handed to the base
SethOptimizer_init(learning_rate, momentum_arg, epsilon, use_nesterov) ==
  [cls |-> "SethOptimizer", learning_rate |-> learning_rate, momentum |-> momentum_arg,
   use_nesterov |-> use_nesterov, beta |-> momentum_arg, epsilon |-> epsilon]


\* ------------------------------------------------------------- the momentum base
\* the update of the momentum base class for one variable: accum is its slot
apply_momentum(self, v, accum, grad) ==
  LET accum1 == TAdd(scalar_mul(self.momentum, accum), grad)
  IN [accum |-> accum1,
      var |-> IF self.use_nesterov
              THEN TSub(TSub(v, scalar_mul(self.learning_rate, grad)),
                        scalar_mul(RMul(self.learning_rate, self.momentum), accum1))
              ELSE TSub(v, scalar_mul(self.learning_rate, accum1))]

\* the sparse update of the momentum base class: the rows named by grad.indices are
\* updated one after the other, every other row of the variable and slot is left alone
RECURSIVE apply_sparse_momentum(_, _, _, _, _)
apply_sparse_momentum(self, v, accum, grad, j) ==
  IF j > Len(grad.indices) THEN [accum |-> accum, var |-> v]
  ELSE LET row == grad.indices[j]
           g == grad.values[j]
           a == RAdd(RMul(accum[row], self.momentum), g)
           w == IF self.use_nesterov
                THEN RSub(v[row], RAdd(RMul(g, self.learning_rate),
                                       RMul(RMul(a, self.momentum), self.learning_rate)))
                ELSE RSub(v[row], RMul(self.learning_rate, a))
       IN apply_sparse_momentum(self, [v EXCEPT ![row] = w], [accum EXCEPT ![row] = a],
                                grad, j + 1)

\* the base class sums the values of a sparse gradient that name the same row before it
\* applies it: the rows are kept in the order of their first occurrence (tf.unique)
RECURSIVE unique(_, _, _)
unique(indices, j, seen) ==
  IF j > Len(indices) THEN seen
  ELSE unique(indices, j + 1,
              IF \E m \in 1..Len(seen) : seen[m] = indices[j] THEN seen
              ELSE Append(seen, indices[j]))
deduplicate_indexed_slices(grad) ==
  LET unique_indices == unique(grad.indices, 1, <<>>)
  IN IndexedSlices([m \in 1..Len(unique_indices) |-> RowSum(grad, unique_indices[m], 1)],
                   unique_indices, grad.len)

\* the updates the momentum base applies to a resource variable: SethOptimizer does not
\* override them, the gradient is used as it is given
resource_apply_dense(self, grad, v, accum) == apply_momentum(self, v, accum, grad)
resource_apply_sparse_duplicate_indices(self, grad, v, accum) ==
  apply_sparse_momentum(self, v, accum, deduplicate_indexed_slices(grad), 1)

\* the decoupled extension shrinks the variable before the base updates it
decay_weights(self, v) ==
  IF self.cls = "NovoGradW" THEN TSub(v, scalar_mul(self.weight_decay, v)) ELSE v

\* ------------------------------------------------------------- the EMA list
\* An entry of self._grads_ema is [val, deps]: the scalar variable tf.get_variable
\* made, holding val, when deps is empty; otherwise the tensor the tf.cond of the calls
\* deps (call numbers, oldest first) built around that variable.  Executing eagerly an
\* entry is the value the last tf.cond returned (deps is empty).
Variable(val) == [val |-> val, deps |-> <<>>]

\* the gradient statistic: the sum of squares in NovoGrad2, the norm of order ord in NovoGrad
statistic(self, grad) ==
  IF self.cls = "NovoGrad" THEN norm(grad, self.ord) ELSE reduce_sum(square(grad))

\* ------------------------------------------------------------- NovoGrad2.apply_gradients
\* "init ema variables if required": one scalar variable 0 per pair, the first time only
NovoGrad2_init_ema(self, len_vars) ==
  IF self.grads_ema = None THEN [i \in 1..len_vars |-> Variable(Zero)]
  ELSE self.grads_ema[1]

\* variant: no cold start, the blend is used from a stored 0 too
NovoGrad2_ema_no_cold_start(v, g_2, beta2) ==
  RAdd(RMul(v, beta2), RMul(g_2, RSub(One, beta2)))

\* the tf.cond on the value read: the statistic itself when it is 0, else the blend
NovoGrad2_ema(v, g_2, beta2) ==
  IF REq(v, Zero) THEN g_2 ELSE RAdd(RMul(v, beta2), RMul(g_2, RSub(One, beta2)))

\* variant: the decay factor without the (1 - beta1) rescale
NovoGrad2_wd_factor_unscaled(self) == self.wd

\* wd_factor, set when weight_decay > 0
NovoGrad2_wd_factor(self) == RMul(RSub(One, self.beta1), self.wd)

\* variant: one EMA scalar, the first, shared by all the pairs
NovoGrad2_group_shared(self, ema, gvs, i) ==
  LET grad == gvs[i].grad
      g_2 == reduce_sum(square(grad))
      ema_i == IF REq(ema[1], Zero) THEN g_2
               ELSE RAdd(RMul(ema[1], self.beta2), RMul(g_2, RSub(One, self.beta2)))
      g_factor == RDiv(RSub(One, self.beta1), RSqrt(RAdd(ema_i, self.epsilon)))
      grad1 == scalar_mul(g_factor, grad)
      grad2 == IF RGt(self.wd, Zero)
               THEN TAdd(grad1, scalar_mul(RMul(RSub(One, self.beta1), self.wd), gvs[i].var))
               ELSE grad1
  IN [ema |-> [ema EXCEPT ![1] = ema_i],
      gvs |-> [gvs EXCEPT ![i] = [grad |-> grad2, var |-> gvs[i].var]]]

\* the values of the loop body for pair i: ema[i] is the value self._grads_ema[i] has
\* when the body's operations execute
NovoGrad2_group(self, ema, gvs, i) ==
  LET grad == gvs[i].grad
      g_2 == reduce_sum(square(grad))
      ema_i == NovoGrad2_ema(ema[i], g_2, self.beta2)
      g_factor == RDiv(RSub(One, self.beta1), RSqrt(RAdd(ema_i, self.epsilon)))
      grad1 == scalar_mul(g_factor, grad)
      grad2 == IF RGt(self.wd, Zero)
               THEN TAdd(grad1, scalar_mul(NovoGrad2_wd_factor(self), gvs[i].var))
               ELSE grad1
  IN [ema |-> [ema EXCEPT ![i] = ema_i],
      gvs |-> [gvs EXCEPT ![i] = [grad |-> grad2, var |-> gvs[i].var]]]

\* the loop over enumerate(grads_and_vars); indexing self._grads_ema past its end
\* raises IndexError and leaves what the earlier iterations stored
RECURSIVE NovoGrad2_loop(_, _, _, _)
NovoGrad2_loop(self, ema, gvs, i) ==
  IF i > Len(gvs) THEN [ema |-> ema, gvs |-> gvs, err |-> "none"]
  ELSE IF i > Len(ema) THEN [ema |-> ema, gvs |-> gvs, err |-> "IndexError"]
  ELSE LET r == NovoGrad2_group(self, ema, gvs, i)
       IN NovoGrad2_loop(self, r.ema, r.gvs, i + 1)

\* the same loop in graph construction, as call number b over k pairs: entry i of the
\* list is rebound to the tensor of this call's tf.cond, which reads the entry it replaces
RECURSIVE NovoGrad2_trace(_, _, _, _)
NovoGrad2_trace(ema, k, b, i) ==
  IF i > k THEN [ema |-> ema, err |-> "none"]
  ELSE IF i > Len(ema) THEN [ema |-> ema, err |-> "IndexError"]
  ELSE NovoGrad2_trace([ema EXCEPT ![i] = [val |-> ema[i].val, deps |-> Append(ema[i].deps, b)]],
                       k, b, i + 1)

\* ------------------------------------------------------------- NovoGrad.apply_gradients
NovoGrad_init_ema(self, len_vars) ==
  IF self.grads_ema = None THEN [i \in 1..len_vars |-> Variable(Zero)]
  ELSE self.grads_ema[1]

NovoGrad_ema(v, g_norm, beta2) ==
  IF REq(v, Zero) THEN g_norm ELSE RAdd(RMul(v, beta2), RMul(g_norm, RSub(One, beta2)))

NovoGrad_group(self, ema, gvs, i) ==
  LET grad == gvs[i].grad
      g_norm == norm(grad, self.ord)
      ema_i == NovoGrad_ema(ema[i], g_norm, self.beta2)
      g_factor == RDiv(self.beta1, RAdd(ema_i, self.epsilon))
  IN [ema |-> [ema EXCEPT ![i] = ema_i],
      gvs |-> [gvs EXCEPT ![i] = [grad |-> scalar_mul(g_factor, grad), var |-> gvs[i].var]]]

RECURSIVE NovoGrad_loop(_, _, _, _)
NovoGrad_loop(self, ema, gvs, i) ==
  IF i > Len(gvs) THEN [ema |-> ema, gvs |-> gvs, err |-> "none"]
  ELSE IF i > Len(ema) THEN [ema |-> ema, gvs |-> gvs, err |-> "IndexError"]
  ELSE LET r == NovoGrad_group(self, ema, gvs, i)
       IN NovoGrad_loop(self, r.ema, r.gvs, i + 1)

RECURSIVE NovoGrad_trace(_, _, _, _)
NovoGrad_trace(ema, k, b, i) ==
  IF i > k THEN [ema |-> ema, err |-> "none"]
  ELSE IF i > Len(ema) THEN [ema |-> ema, err |-> "IndexError"]
  ELSE NovoGrad_trace([ema EXCEPT ![i] = [val |-> ema[i].val, deps |-> Append(ema[i].deps, b)]],
                      k, b, i + 1)

\* ------------------------------------------------------------- running a built tensor
\* the gradient of pair i that the tensors of call c hold while the op of call b runs
\* on pattern p
FedGrad(p, b, c, i) == Grads(p + (b - c), MaxN)[i]

\* the value of entry e of pair i in that run: the variable's value passed through the
\* tf.cond of each of the first n calls of e.deps
RECURSIVE eval(_, _, _, _, _, _)
eval(self, e, n, i, p, b) ==
  IF n = 0 THEN e.val
  ELSE LET v == eval(self, e, n - 1, i, p, b)
           stat == statistic(self, FedGrad(p, b, e.deps[n], i))
       IN IF self.cls = "NovoGrad" THEN NovoGrad_ema(v, stat, self.beta2)
          ELSE NovoGrad2_ema(v, stat, self.beta2)

\* ------------------------------------------------------------- SethOptimizer
SethOptimizer_apply_dense(self, grad, v, accum) ==
  LET g_norm == norm(grad, 2)
      grad1 == scalar_mul(RDiv(self.beta, RAdd(g_norm, self.epsilon)), grad)
  IN apply_momentum(self, v, accum, grad1)

\* tf.norm takes the sparse gradient as a dense tensor, tf.scalar_mul scales its values
SethOptimizer_apply_sparse(self, grad, v, accum) ==
  LET g_norm == norm(convert_to_tensor(grad), 2)
      grad1 == IndexedSlices(scalar_mul(RDiv(self.beta, RAdd(g_norm, self.epsilon)),
                                        grad.values),
                             grad.indices, grad.len)
  IN apply_sparse_momentum(self, v, accum, grad1, 1)

\* the base class hands _apply_sparse the gradient with its repeated rows summed
apply_sparse_duplicate_indices(self, grad, v, accum) ==
  SethOptimizer_apply_sparse(self, deduplicate_indexed_slices(grad), v, accum)

\* ------------------------------------------------------------- state
\* mode      how TensorFlow executes: "eager" or "graph"
\* opt       the optimizer object, [cls |-> "none"] before construction
\* ops       the training ops built in graph mode, in the order they were built
\* var       the trainable variables, momentum their slots in the momentum base
\* calls     the number of apply_gradients calls so far, runs the number of op runs
\* last      what the last call or run was given and did
\* hist      per variable, the gradients handed to the momentum base so far
\* computed  per pair, the EMA value the last step that processed it computed
NoCall == [op |-> "none"]
Min(a, b) == IF a < b THEN a ELSE b

Init ==
  /\ mode \in {"eager", "graph"}
  /\ opt = [cls |-> "none"]
  /\ ops = <<>>
  /\ var = InitVar
  /\ momentum = [i \in 1..MaxN |-> ZeroT(InitVar[i])]
  /\ calls = 0
  /\ runs = 0
  /\ last = NoCall
  /\ hist = [i \in 1..MaxN |-> <<>>]
  /\ computed = [i \in 1..MaxN |-> None]

NewNovoGrad2 ==
  /\ opt.cls = "none"
  /\ \E a \in NovoGrad2Args :
       opt' = NovoGrad2_init(a.learning_rate, a.beta1, a.beta2, a.epsilon, a.weight_decay)
  /\ UNCHANGED <<mode, ops, var, momentum, calls, runs, last, hist, computed>>

NewNovoGradW ==
  /\ opt.cls = "none"
  /\ \E a \in NovoGradWArgs :
       opt' = NovoGradW_init(a.weight_decay, a.learning_rate, a.beta1, a.beta2, a.epsilon)
  /\ UNCHANGED <<mode, ops, var, momentum, calls, runs, last, hist, computed>>

NewNovoGrad ==
  /\ opt.cls = "none"
  /\ \E a \in NovoGradArgs :
       opt' = NovoGrad_init(a.learning_rate, a.beta1, a.beta2, a.epsilon, a.ord)
  /\ UNCHANGED <<mode, ops, var, momentum, calls, runs, last, hist, computed>>

NewSethOptimizer ==
  /\ opt.cls = "none"
  /\ \E a \in SethOptimizerArgs :
       opt' = SethOptimizer_init(a.learning_rate, a.momentum, a.epsilon, a.use_nesterov)
  /\ UNCHANGED <<mode, ops, var, momentum, calls, runs, last, hist, computed>>

\* the operations of one step of NovoGrad2, NovoGradW or NovoGrad executing on the
\* gradients grads of k pairs: ema0 are the values of the EMA entries read, r what the
\* loop computes from them; an IndexError leaves the variables and slots alone, otherwise
\* the base class updates the k variables handed to it
Execute(self, call, first, k, grads, pre_list, ema0, r) ==
  /\ IF call THEN calls' = calls + 1 /\ UNCHANGED runs
     ELSE runs' = runs + 1 /\ UNCHANGED calls
  /\ computed' = [i \in 1..MaxN |->
                    IF i <= Min(k, Len(ema0)) THEN Some(r.ema[i]) ELSE computed[i]]
  /\ IF r.err # "none"
     THEN /\ UNCHANGED <<var, momentum, hist>>
          /\ last' = [op |-> "apply", call |-> call, first |-> first, k |-> k,
                      grads |-> grads, pre_list |-> pre_list, pre_ema |-> ema0,
                      new_ema |-> r.ema, prev |-> computed, pre_var |-> var,
                      pre_m |-> momentum, handed |-> <<>>, err |-> r.err]
     ELSE LET dec == [i \in 1..k |-> decay_weights(self, var[i])]
              upd == [i \in 1..k |->
                        apply_momentum(self, dec[i], momentum[i], r.gvs[i].grad)]
          IN /\ var' = [i \in 1..MaxN |-> IF i <= k THEN upd[i].var ELSE var[i]]
             /\ momentum' = [i \in 1..MaxN |->
                               IF i <= k THEN upd[i].accum ELSE momentum[i]]
             /\ hist' = [i \in 1..MaxN |->
                           IF i <= k THEN Append(hist[i], r.gvs[i].grad) ELSE hist[i]]
             /\ last' = [op |-> "apply", call |-> call, first |-> first, k |-> k,
                         grads |-> grads, pre_list |-> pre_list, pre_ema |-> ema0,
                         new_ema |-> r.ema, prev |-> computed, pre_var |-> var,
                         pre_m |-> momentum,
                         handed |-> [i \in 1..k |-> r.gvs[i].grad],
                         err |-> "none"]

\* what a call of apply_gradients leaves in graph mode: the rebound list and, unless
\* the loop raised, one more training op; no variable or slot changes.  The graph is
\* built before it is run: the calls come before the first run of an op.
Build(self, k, pre_list, t) ==
  /\ opt' = [self EXCEPT !.grads_ema = Some(t.ema)]
  /\ ops' = IF t.err = "none"
            THEN Append(ops, [id |-> calls + 1, k |-> k, pre |-> pre_list,
                              first |-> (self.grads_ema = None)])
            ELSE ops
  /\ calls' = calls + 1
  /\ last' = [op |-> "build", call |-> TRUE, first |-> (self.grads_ema = None), k |-> k,
              pre_list |-> pre_list, pre_var |-> var, pre_m |-> momentum, err |-> t.err]
  /\ UNCHANGED <<var, momentum, runs, hist, computed>>

NovoGrad2_apply_gradients ==
  /\ opt.cls \in {"NovoGrad2", "NovoGradW"}
  /\ calls < MaxSteps
  /\ mode = "graph" => runs = 0
  /\ UNCHANGED mode
  /\ \E k \in PairCounts :
       LET pre_list == NovoGrad2_init_ema(opt, k)
       IN IF mode = "graph"
          THEN Build(opt, k, pre_list, NovoGrad2_trace(pre_list, k, calls + 1, 1))
          ELSE \E p \in GradPatterns :
                 LET grads == Grads(p, k)
                     gvs == [i \in 1..k |-> [grad |-> grads[i], var |-> var[i]]]
                     ema0 == [i \in 1..Len(pre_list) |-> pre_list[i].val]
                     r == NovoGrad2_loop(opt, ema0, gvs, 1)
                 IN /\ opt' = [opt EXCEPT !.grads_ema =
                                 Some([i \in 1..Len(r.ema) |-> Variable(r.ema[i])])]
                    /\ UNCHANGED ops
                    /\ Execute(opt, TRUE, opt.grads_ema = None, k, grads, pre_list, ema0, r)

NovoGrad_apply_gradients ==
  /\ opt.cls = "NovoGrad"
  /\ calls < MaxSteps
  /\ mode = "graph" => runs = 0
  /\ UNCHANGED mode
  /\ \E k \in PairCounts :
       LET pre_list == NovoGrad_init_ema(opt, k)
       IN IF mode = "graph"
          THEN Build(opt, k, pre_list, NovoGrad_trace(pre_list, k, calls + 1, 1))
          ELSE \E p \in GradPatterns :
                 LET grads == Grads(p, k)
                     gvs == [i \in 1..k |-> [grad |-> grads[i], var |-> var[i]]]
                     ema0 == [i \in 1..Len(pre_list) |-> pre_list[i].val]
                     r == NovoGrad_loop(opt, ema0, gvs, 1)
                 IN /\ opt' = [opt EXCEPT !.grads_ema =
                                 Some([i \in 1..Len(r.ema) |-> Variable(r.ema[i])])]
                    /\ UNCHANGED ops
                    /\ Execute(opt, TRUE, opt.grads_ema = None, k, grads, pre_list, ema0, r)

\* the inherited apply_gradients updates each pair by the kind of its variable and of
\* its gradient.  In a graph the variables are reference variables and the update is
\* _apply_dense or, the repeated rows summed, _apply_sparse: the two SethOptimizer
\* overrides.  Executing eagerly the variables are resource variables and the update is
\* _resource_apply_dense or _resource_apply_sparse of the momentum base, which
\* SethOptimizer leaves as they are: the gradient is not rescaled.
SethExecute(self, call, k, grads) ==
  LET upd == [i \in 1..k |->
                IF mode = "eager"
                THEN IF SparseVar(i)
                     THEN resource_apply_sparse_duplicate_indices(self, grads[i], var[i],
                                                                  momentum[i])
                     ELSE resource_apply_dense(self, grads[i], var[i], momentum[i])
                ELSE IF SparseVar(i)
                     THEN apply_sparse_duplicate_indices(self, grads[i], var[i], momentum[i])
                     ELSE SethOptimizer_apply_dense(self, grads[i], var[i], momentum[i])]
  IN /\ var' = [i \in 1..MaxN |-> IF i <= k THEN upd[i].var ELSE var[i]]
     /\ momentum' = [i \in 1..MaxN |-> IF i <= k THEN upd[i].accum ELSE momentum[i]]
     /\ IF call THEN calls' = calls + 1 /\ UNCHANGED runs
        ELSE runs' = runs + 1 /\ UNCHANGED calls
     /\ last' = [op |-> "apply_seth", call |-> call, k |-> k, grads |-> grads,
                 pre_var |-> var, pre_m |-> momentum, err |-> "none"]
     /\ UNCHANGED <<hist, computed>>

\* SethOptimizer inherits apply_gradients
SethOptimizer_apply_gradients ==
  /\ opt.cls = "SethOptimizer"
  /\ calls < MaxSteps
  /\ mode = "graph" => runs = 0
  /\ UNCHANGED <<mode, opt>>
  /\ \E k \in PairCounts :
       IF mode = "graph"
       THEN /\ ops' = Append(ops, [id |-> calls + 1, k |-> k, pre |-> <<>>, first |-> TRUE])
            /\ calls' = calls + 1
            /\ last' = [op |-> "build", call |-> TRUE, first |-> TRUE, k |-> k,
                        pre_list |-> <<>>, pre_var |-> var, pre_m |-> momentum,
                        err |-> "none"]
            /\ UNCHANGED <<var, momentum, runs, hist, computed>>
       ELSE /\ UNCHANGED ops
            /\ \E p \in GradPatterns : SethExecute(opt, TRUE, k, SethGrads(p, k))

\* session.run of the training op the last call returned, on the gradients of pattern
\* p (the op of an earlier call does what it did before the later calls were made)
run_train_op ==
  /\ mode = "graph"
  /\ runs < MaxSteps
  /\ ops # <<>>
  /\ UNCHANGED <<mode, opt, ops>>
  /\ \E p \in GradPatterns :
       LET op == ops[Len(ops)]
       IN IF opt.cls = "SethOptimizer"
          THEN SethExecute(opt, FALSE, op.k, SethGrads(p, op.k))
          ELSE LET grads == Grads(p, op.k)
                   gvs == [i \in 1..op.k |-> [grad |-> grads[i], var |-> var[i]]]
                   ema0 == [i \in 1..Len(op.pre) |->
                              eval(opt, op.pre[i], Len(op.pre[i].deps), i, p, op.id)]
                   r == IF opt.cls = "NovoGrad" THEN NovoGrad_loop(opt, ema0, gvs, 1)
                        ELSE NovoGrad2_loop(opt, ema0, gvs, 1)
               IN Execute(opt, FALSE, op.first, op.k, grads, op.pre, ema0, r)

Next ==
  \/ NewNovoGrad2
  \/ NewNovoGradW
  \/ NewNovoGrad
  \/ NewSethOptimizer
  \/ NovoGrad2_apply_gradients
  \/ NovoGrad_apply_gradients
  \/ SethOptimizer_apply_gradients
  \/ run_train_op

Spec == Init /\ [][Next]_vars

TypeOK == calls \in 0..MaxSteps /\ runs \in 0..MaxSteps /\ mode \in {"eager", "graph"}

\* ------------------------------------------------------------- vocabulary of the claims
EmaClasses == {"NovoGrad2", "NovoGradW", "NovoGrad"}

\* the last event was a step of a class that keeps an EMA: an eager apply_gradients
\* call, or the run of an op
Applied == last.op = "apply"
AppliedOk == Applied /\ last.err = "none"

\* the last event was an apply_gradients call of such a class, executed or built
Called == opt.cls \in EmaClasses /\ last.op \in {"apply", "build"} /\ last.call

\* the pairs the loop of the last step got to: all of them unless the list was longer
\* than the state created by the first call
Processed == 1..Min(last.k, Len(last.pre_ema))

Blend(self, v, stat) == RAdd(RMul(self.beta2, v), RMul(RSub(One, self.beta2), stat))

\* the rescaled gradient g' of the squared-norm mode
Rescaled2(self, v_new, grad) ==
  scalar_mul(RDiv(RSub(One, self.beta1), RSqrt(RAdd(v_new, self.epsilon))), grad)

RECURSIVE RPow(_, _)
RPow(b, e) == IF e = 0 THEN One ELSE RMul(b, RPow(b, e - 1))

\* sum over k = from..T of b^(T-k) * h[k], T = Len(h)
RECURSIVE ClosedSum(_, _, _, _)
ClosedSum(b, h, from, zero) ==
  IF from > Len(h) THEN zero
  ELSE TAdd(scalar_mul(RPow(b, Len(h) - from), h[from]), ClosedSum(b, h, from + 1, zero))

InUnit(b) == RGe(b, Zero) /\ RGt(One, b)

ValidConfig(self) ==
  /\ InUnit(self.beta1)
  /\ InUnit(self.beta2)
  /\ RGt(self.epsilon, Zero)
  /\ self.cls = "NovoGrad2" => RGe(self.wd, Zero)
  /\ self.cls = "NovoGradW" => RGe(self.weight_decay, Zero)

FiniteT(t) == \A j \in 1..Len(t) : IsFinite(t[j])

\* ------------------------------------------------------------- claims
\* C1: the EMA state of a group is updated in place by every step and is what the next
\* step reads: the v_old a step reads for group i is the v_new that the previous step of
\* group i computed (stated for the configurations the documentation allows).
C1_NextStepReadsStored ==
  (Applied /\ ValidConfig(opt)) =>
    \A i \in Processed : last.prev[i] # None => last.pre_ema[i] = last.prev[i][1]

\* C2: in both modes, for every group a step processes, v_new is the statistic exactly
\* when v_old == 0 and beta2*v_old + (1-beta2)*stat when v_old != 0, also when the
\* statistic is 0; v_old being the value the step reads, and v_new what an eager call
\* leaves in the list.
C2_EmaUpdateRule ==
  Applied =>
    \A i \in Processed :
      LET v_old == last.pre_ema[i]
          v_new == last.new_ema[i]
          stat == statistic(opt, last.grads[i])
      IN /\ v_old = Zero => v_new = stat
         /\ (v_old # Zero) =>
              v_new = RAdd(RMul(opt.beta2, v_old), RMul(RSub(One, opt.beta2), stat))
         /\ mode = "eager" => opt.grads_ema[1][i] = Variable(v_new)

\* a warm group blended with a statistic of 0, and a cold group set to a non-zero statistic
C2_Witness ==
  /\ Applied
  /\ \E i \in Processed :
       /\ last.pre_ema[i] # Zero
       /\ statistic(opt, last.grads[i]) = Zero
       /\ last.new_ema[i] = RMul(opt.beta2, last.pre_ema[i])
       /\ last.new_ema[i] # Zero
  /\ \E i \in Processed :
       /\ last.pre_ema[i] = Zero
       /\ last.new_ema[i] # Zero
       /\ last.new_ema[i] # RMul(RSub(One, opt.beta2), statistic(opt, last.grads[i]))

\* C3: a later call with a number of pairs different from the first call's fails with a
\* ConfigurationError and leaves every EMA value, momentum slot and parameter as it was
\* (stated for the configurations the documentation allows).
C3_MismatchRejected ==
  (Called /\ ~last.first /\ last.k # Len(last.pre_list) /\ ValidConfig(opt)) =>
    /\ last.err = "ConfigurationError"
    /\ opt.grads_ema[1] = last.pre_list
    /\ var = last.pre_var
    /\ momentum = last.pre_m

\* C4: every EMA value a step computes or leaves stored is >= 0.
C4_NonNegative ==
  Applied => \A i \in 1..Len(last.new_ema) : RGe(last.new_ema[i], Zero)

\* C5: no NovoGrad2, NovoGradW or NovoGrad instance with weight_decay < 0, beta1 or beta2
\* outside [0,1), or epsilon <= 0 reaches apply_gradients.
C5_InvalidConfigNeverApplied ==
  (opt.cls \in EmaClasses /\ calls > 0) => ValidConfig(opt)

\* C6: a NovoGradW built with weight_decay > 0 shrinks each parameter of a step once, in
\* the decoupled step before the momentum update, and hands the momentum base the
\* rescaled gradient with no coupled term (1-beta1)*weight_decay*parameter added.
C6_DecayOnce ==
  (opt.cls = "NovoGradW" /\ AppliedOk /\ RGt(opt.weight_decay, Zero)) =>
    \A i \in 1..last.k :
      /\ last.handed[i] = Rescaled2(opt, last.new_ema[i], last.grads[i])
      /\ var[i] = TSub(TSub(last.pre_var[i], scalar_mul(opt.weight_decay, last.pre_var[i])),
                       scalar_mul(opt.learning_rate, momentum[i]))

\* a NovoGradW step with weight_decay > 0 on a finite non-zero parameter: the decay shows
\* in the parameter, and a coupled term would have shown in the gradient
C6_Witness ==
  /\ opt.cls = "NovoGradW" /\ AppliedOk /\ RGt(opt.weight_decay, Zero)
  /\ \E i \in 1..last.k :
       /\ FiniteT(var[i]) /\ FiniteT(last.handed[i])
       /\ var[i] # TSub(last.pre_var[i], scalar_mul(opt.learning_rate, momentum[i]))
       /\ last.handed[i] #
            TAdd(last.handed[i],
                 scalar_mul(RMul(RSub(One, opt.beta1), opt.weight_decay), last.pre_var[i]))

\* C7: NovoGrad2 hands the momentum base g' + (1-beta1)*weight_decay*parameter when
\* weight_decay > 0, and g' = gradient*(1-beta1)/sqrt(v_new + epsilon) alone otherwise.
C7_CoupledDecay ==
  (opt.cls \in {"NovoGrad2", "NovoGradW"} /\ AppliedOk) =>
    \A i \in 1..last.k :
      LET g1 == Rescaled2(opt, last.new_ema[i], last.grads[i])
      IN last.handed[i] =
           IF RGt(opt.wd, Zero)
           THEN TAdd(g1, scalar_mul(RMul(RSub(One, opt.beta1), opt.wd), last.pre_var[i]))
           ELSE g1

\* a NovoGrad2 step with weight_decay > 0 whose decay term changes the finite gradient,
\* the rescale being by an irrational square root
C7_Witness ==
  /\ opt.cls = "NovoGrad2" /\ AppliedOk /\ RGt(opt.wd, Zero)
  /\ \E i \in 1..last.k :
       /\ FiniteT(last.handed[i])
       /\ last.handed[i] # Rescaled2(opt, last.new_ema[i], last.grads[i])
       /\ ~IsRational(RSqrt(RAdd(last.new_ema[i], opt.epsilon)))

\* C8 as stated: every variant, SethOptimizer included, has use_nesterov = False under
\* every constructor argument.
C8_NesterovOffEverywhere ==
  (opt.cls # "none") => opt.use_nesterov = FALSE

\* C8 amended: NovoGrad2, NovoGradW and NovoGrad always have use_nesterov = False, and
\* their step is the plain momentum step; SethOptimizer alone takes it from its caller.
C8_NesterovOffInNovoGrads ==
  (opt.cls \in EmaClasses) =>
    /\ opt.use_nesterov = FALSE
    /\ AppliedOk =>
         \A i \in 1..last.k :
           var[i] = TSub(decay_weights(opt, last.pre_var[i]),
                         scalar_mul(opt.learning_rate, momentum[i]))

\* a NovoGrad step whose plain momentum update differs from the Nesterov one
C8_Witness ==
  /\ opt.cls = "NovoGrad" /\ AppliedOk
  /\ \E i \in 1..last.k :
       /\ FiniteT(var[i])
       /\ var[i] # TSub(TSub(last.pre_var[i],
                             scalar_mul(opt.learning_rate, last.handed[i])),
                        scalar_mul(RMul(opt.learning_rate, opt.momentum), momentum[i]))

\* C9: each step of NovoGrad2, NovoGradW and NovoGrad sets m_new = beta1*m_old + g'' and
\* parameter_new = parameter_old - learning_rate*m_new (parameter_old being the parameter
\* the momentum base receives), and after T steps m_T is the sum of beta1^(T-k) * g''_k.
C9_MomentumRecurrence ==
  (opt.cls \in EmaClasses) =>
    /\ \A i \in 1..MaxN :
         momentum[i] = ClosedSum(opt.beta1, hist[i], 1, ZeroT(InitVar[i]))
    /\ AppliedOk =>
         \A i \in 1..last.k :
           /\ momentum[i] = TAdd(scalar_mul(opt.beta1, last.pre_m[i]), last.handed[i])
           /\ var[i] = TSub(decay_weights(opt, last.pre_var[i]),
                            scalar_mul(opt.learning_rate, momentum[i]))

\* two or more steps of a group with a finite momentum that the last gradient alone
\* does not explain
C9_Witness ==
  /\ opt.cls \in EmaClasses /\ AppliedOk
  /\ \E i \in 1..last.k :
       /\ Len(hist[i]) >= 2
       /\ FiniteT(momentum[i])
       /\ momentum[i] # last.handed[i]
       /\ last.pre_m[i] # ZeroT(momentum[i])

GroupOf(self, ema, gvs, i) ==
  IF self.cls = "NovoGrad" THEN NovoGrad_group(self, ema, gvs, i)
  ELSE NovoGrad2_group(self, ema, gvs, i)

\* the per-group updates of pairs i, i-1, .., 1 carried out in that order
RECURSIVE Backwards(_, _, _, _)
Backwards(self, ema, gvs, i) ==
  IF i = 0 THEN [ema |-> ema, gvs |-> gvs]
  ELSE LET r == GroupOf(self, ema, gvs, i)
       IN Backwards(self, r.ema, r.gvs, i - 1)

\* the pairs the last step was given
PairsIn == [i \in 1..last.k |-> [grad |-> last.grads[i], var |-> last.pre_var[i]]]

\* C10: the update of group i changes only v_i and pair i, every other v_j and pair j is
\* left as it was, and the state a step leaves is the one the per-group updates give in
\* the opposite order.
C10_GroupsIndependent ==
  (opt.cls \in EmaClasses /\ Applied) =>
    /\ \A i \in Processed :
         LET r == GroupOf(opt, last.pre_ema, PairsIn, i)
         IN /\ \A j \in 1..Len(last.pre_ema) : j # i => r.ema[j] = last.pre_ema[j]
            /\ \A j \in 1..last.k : j # i => r.gvs[j] = PairsIn[j]
            /\ r.ema[i] = last.new_ema[i]
            /\ AppliedOk => r.gvs[i].grad = last.handed[i]
    /\ LET b == Backwards(opt, last.pre_ema, PairsIn, Min(last.k, Len(last.pre_ema)))
       IN /\ b.ema = last.new_ema
          /\ AppliedOk => \A i \in 1..last.k : b.gvs[i].grad = last.handed[i]

\* a step over two groups that changed the EMA value of both, to different values
C10_Witness ==
  /\ opt.cls \in EmaClasses /\ AppliedOk /\ last.k >= 2 /\ ~last.first
  /\ last.new_ema[1] # last.pre_ema[1]
  /\ last.new_ema[2] # last.pre_ema[2]
  /\ last.new_ema[1] # last.new_ema[2]
  /\ last.pre_ema[1] # last.pre_ema[2]
====
